---- MODULE Spec2Model ----
(***************************************************************************)
(* Inventory service and order choreography of the e-commerce system.      *)
(*                                                                         *)
(* The inventory store is a collection keyed by productCode.  Every        *)
(* InventoryService method is an async function: the store reads and       *)
(* writes it awaits are the atomic steps, and the JavaScript between two   *)
(* awaits runs without interruption.  Several invocations may be in        *)
(* flight at once (one per HTTP request or broker message), so their       *)
(* store accesses interleave.                                              *)
(***************************************************************************)
EXTENDS Integers, Sequences, FiniteSets, TLC

\* ------------------------------------------------------------------ bounds
MaxStock == 2
MaxCalls == 2
MaxOrders == 2

\* ------------------------------------------------------------- value sets
GenCodes == {"INV-000000001", "INV-000000002"}
OpCodes == {"PROD-1", "INV-000000001"}
Names == {"Test Product"}
Prices == {100}
Quantities == 0..MaxStock
\* createItem is called with no stock or with full stock.
CreateQuantities == {0, MaxStock}
\* updateStock is called with no stock, one unit or full stock.
UpdateQuantities == {0, 1, MaxStock}
\* deductStock and checkStock are called for one unit or for the full stock.
DeductQuantities == {1, MaxStock}
CheckQuantities == {1, MaxStock}
CallIds == 1..MaxCalls
OrderIds == 1..MaxOrders
OrderCodes == {"PROD-1", "INV-000000001", ""}
OrderQuantities == (-1)..MaxStock
\* createOrder issues at most two requests: the stock check and the deduction.
RpcIds == 1..(2 * MaxOrders)

STOCK_ADDED == "STOCK_ADDED"
STOCK_REDUCED == "STOCK_REDUCED"

VARIABLES
  store,    \* inventory collection: productCode -> [name, quantity, price]
  events,   \* stock events handed to the broker, in publication order
  calls,    \* InventoryService invocations: CallIds -> call record
  procs,    \* createOrder invocations: OrderIds -> process record
  orders,   \* order collection, in insertion order
  rpcs,     \* publishWithResponse calls made so far, in call order
  pending,  \* the broker client's pending-waiter table
  outcomes, \* per publishWithResponse call: the completions its caller got
  requests, \* request messages on their way to the inventory responder
  replies,  \* reply messages on their way back to the broker client
  served,   \* history: per correlationId, the reply the responder produced
  dropped   \* history: correlationIds whose reply was discarded

brokerVars == <<rpcs, pending, outcomes, requests, replies, served, dropped>>
orderVars == <<procs, orders>>
vars == <<store, events, calls, procs, orders, rpcs, pending, outcomes,
          requests, replies, served, dropped>>

\* A message of the inventory service: its text, and the two numbers the
\* insufficient-stock texts carry.
NoMessage == [text |-> "", requested |-> 0, available |-> 0]

NoReply == [available |-> FALSE, message |-> NoMessage, currentStock |-> 0]

\* wrote and before are history: whether the call's store write was done,
\* and the quantity the store held for the item immediately before it.
IdleCall ==
  [op |-> "none", pc |-> "idle", productCode |-> "", quantity |-> 0,
   name |-> "", price |-> 0, doc |-> 0, overlap |-> {}, result |-> "",
   corr |-> 0, reply |-> NoReply, generated |-> FALSE,
   wrote |-> FALSE, before |-> 0]

\* The next unused invocation slot (slots are used once, in order).
FreshCall(id) ==
  /\ calls[id].pc = "idle"
  /\ \A j \in CallIds : j < id => calls[j].pc # "idle"

\* inventoryRepository.findItemById: the item, if the collection holds one.
findItemById(productCode) == productCode \in DOMAIN store

\* ----------------------------------------------------------- deductStock
\* deductStock's guard against overselling.
SufficientNoCheck(available, quantity) == TRUE
Sufficient(available, quantity) == ~(available < quantity)

\* deductStock(productCode, quantity) up to its save: getItem, the sufficiency
\* check and the in-memory decrement.  The document then holds the new
\* quantity, not yet saved.  corr is the correlation id of the broker request
\* that caused the invocation (0: a direct call).
DeductGetItem(id, productCode, quantity, corr) ==
  LET c == [IdleCall EXCEPT !.op = "deductStock", !.productCode = productCode,
                            !.quantity = quantity, !.corr = corr]
  IN
  /\ FreshCall(id)
  /\ IF ~findItemById(productCode)
       THEN calls' = [calls EXCEPT ![id] =
              [c EXCEPT !.pc = "failed", !.result = "NotFound"]]
       ELSE LET inventory == store[productCode] IN
            IF ~Sufficient(inventory.quantity, quantity)
              THEN calls' = [calls EXCEPT ![id] =
                     [c EXCEPT !.pc = "failed", !.result = "InsufficientStock",
                               !.doc = inventory.quantity,
                               !.name = inventory.name]]
              ELSE calls' = [calls EXCEPT ![id] =
                     [c EXCEPT !.pc = "save",
                               !.doc = inventory.quantity - quantity,
                               !.name = inventory.name,
                               !.overlap =
                                  {j \in CallIds : /\ calls[j].op = "deductStock"
                                                   /\ calls[j].pc = "save"
                                                   /\ calls[j].productCode = productCode}]]

\* inventory.save(): the document's quantity replaces the stored one.
DeductSave(id) ==
  LET c == calls[id] IN
  /\ c.op = "deductStock" /\ c.pc = "save"
  /\ store' = [store EXCEPT ![c.productCode].quantity = c.doc]
  /\ calls' = [calls EXCEPT ![id].pc = "publish", ![id].wrote = TRUE,
                            ![id].before = store[c.productCode].quantity]
  /\ UNCHANGED events

DeductEvent(c) ==
  [eventType |-> STOCK_REDUCED, productCode |-> c.productCode,
   previousQuantity |-> c.doc + c.quantity, newQuantity |-> c.doc,
   productName |-> c.name]

\* ------------------------------------------------------------ updateStock
\* updateStock(productCode, quantity) up to its write: the lookup, and
\* previousQuantity taken from the item found.
UpdateFind(id, productCode, quantity) ==
  LET c == [IdleCall EXCEPT !.op = "updateStock", !.productCode = productCode,
                            !.quantity = quantity]
  IN
  /\ FreshCall(id)
  /\ IF ~findItemById(productCode)
       THEN calls' = [calls EXCEPT ![id] =
              [c EXCEPT !.pc = "failed", !.result = "NotFound"]]
       ELSE calls' = [calls EXCEPT ![id] =
              [c EXCEPT !.pc = "write", !.doc = store[productCode].quantity,
                        !.name = store[productCode].name]]

\* inventoryRepository.updateStock(productCode, quantity)
UpdateWrite(id) ==
  LET c == calls[id] IN
  /\ c.op = "updateStock" /\ c.pc = "write"
  /\ store' = [store EXCEPT ![c.productCode].quantity = c.quantity]
  /\ calls' = [calls EXCEPT ![id].pc = "publish", ![id].wrote = TRUE,
                            ![id].before = store[c.productCode].quantity]
  /\ UNCHANGED events

UpdateEventType(quantity, previousQuantity) ==
  IF quantity > previousQuantity THEN STOCK_ADDED ELSE STOCK_REDUCED

UpdateEvent(c) ==
  [eventType |-> UpdateEventType(c.quantity, c.doc),
   productCode |-> c.productCode,
   previousQuantity |-> c.doc, newQuantity |-> c.quantity,
   productName |-> c.name]

\* ------------------------------------------------------------- createItem
\* createItem's guard on the item its lookup found.
ConflictNever(existingItem) == FALSE
Conflict(existingItem) == existingItem

\* createItem(dto) with a productCode, up to its insert: the lookup.
CreateLookup(id, productCode, name, quantity, price) ==
  LET c == [IdleCall EXCEPT !.op = "createItem", !.productCode = productCode,
                            !.name = name, !.quantity = quantity,
                            !.price = price]
  IN
  /\ FreshCall(id)
  /\ IF Conflict(findItemById(productCode))
       THEN calls' = [calls EXCEPT ![id] =
              [c EXCEPT !.pc = "failed", !.result = "Conflict"]]
       ELSE calls' = [calls EXCEPT ![id] = [c EXCEPT !.pc = "insert"]]

\* createItem(dto) without a productCode: generateUniqueProductCode's loop
\* is entered.
CreateGenerate(id, name, quantity, price) ==
  /\ FreshCall(id)
  /\ calls' = [calls EXCEPT ![id] =
       [IdleCall EXCEPT !.op = "createItem", !.pc = "generate", !.name = name,
                        !.quantity = quantity, !.price = price,
                        !.generated = TRUE]]

\* One turn of generateUniqueProductCode's loop: a random code, kept when
\* the collection holds no item with it.
generateAnyProductCode(id) ==
  LET c == calls[id] IN
  /\ c.op = "createItem" /\ c.pc = "generate"
  /\ \E code \in GenCodes :
       calls' = [calls EXCEPT ![id].pc = "insert", ![id].productCode = code]
  /\ UNCHANGED <<store, events>>
generateUniqueProductCode(id) ==
  LET c == calls[id] IN
  /\ c.op = "createItem" /\ c.pc = "generate"
  /\ \E code \in GenCodes :
       IF findItemById(code)
         THEN UNCHANGED calls
         ELSE calls' = [calls EXCEPT ![id].pc = "insert",
                                     ![id].productCode = code]
  /\ UNCHANGED <<store, events>>

\* The item inventoryRepository.createItem stores for the dto.
\* (initial is history: the quantity the item entered the store with.)
InsertedItemNoStock(c) ==
  [name |-> c.name, quantity |-> 0, price |-> c.price, initial |-> c.quantity]
InsertedItem(c) ==
  [name |-> c.name, quantity |-> c.quantity, price |-> c.price,
   initial |-> c.quantity]

\* inventoryRepository.createItem(dto): the collection's unique index on
\* productCode refuses a second item with the same code.
CreateInsert(id) ==
  LET c == calls[id] IN
  /\ c.op = "createItem" /\ c.pc = "insert"
  /\ IF c.productCode \in DOMAIN store
       THEN /\ calls' = [calls EXCEPT ![id].pc = "failed",
                                      ![id].result = "DuplicateKey"]
            /\ UNCHANGED store
       ELSE /\ store' = [p \in DOMAIN store \cup {c.productCode} |->
                          IF p = c.productCode THEN InsertedItem(c)
                                               ELSE store[p]]
            /\ calls' = [calls EXCEPT ![id].pc = "publish",
                                      ![id].wrote = TRUE]
  /\ UNCHANGED events

CreateEvent(c) ==
  [eventType |-> STOCK_ADDED, productCode |-> c.productCode,
   previousQuantity |-> 0, newQuantity |-> c.quantity,
   productName |-> c.name]

\* -------------------------------------------------- publishStockUpdateEvent
StockEvent(c) ==
  CASE c.op = "deductStock" -> DeductEvent(c)
    [] c.op = "updateStock" -> UpdateEvent(c)
    [] OTHER -> CreateEvent(c)

\* rabbitMQService.publish accepted the event: the method returns.
PublishOkTwice(id) ==
  LET c == calls[id] IN
  /\ c.pc = "publish"
  /\ events' = Append(Append(events, StockEvent(c)), StockEvent(c))
  /\ calls' = [calls EXCEPT ![id].pc = "done", ![id].result = "ok"]
  /\ UNCHANGED store
PublishOk(id) ==
  LET c == calls[id] IN
  /\ c.pc = "publish"
  /\ events' = Append(events, StockEvent(c))
  /\ calls' = [calls EXCEPT ![id].pc = "done", ![id].result = "ok"]
  /\ UNCHANGED store

\* rabbitMQService.publish threw: the error is logged and rethrown.  The
\* store write the method already made is left as it is.
PublishFailRollback(id) ==
  LET c == calls[id] IN
  /\ c.pc = "publish"
  /\ calls' = [calls EXCEPT ![id].pc = "failed", ![id].result = "PublishFailed"]
  /\ store' = IF c.op = "createItem"
                THEN [p \in DOMAIN store \ {c.productCode} |-> store[p]]
                ELSE [store EXCEPT ![c.productCode].quantity =
                        IF c.op = "updateStock" THEN c.doc
                                                ELSE c.doc + c.quantity]
  /\ UNCHANGED events
PublishFail(id) ==
  LET c == calls[id] IN
  /\ c.pc = "publish"
  /\ calls' = [calls EXCEPT ![id].pc = "failed", ![id].result = "PublishFailed"]
  /\ UNCHANGED <<store, events>>

\* ------------------------------------------------------------------ getItem
\* getItem(productCode) called on the service: the item found is returned
\* (its name, quantity and price are kept in the call), or NotFound thrown.
GetItemCallLenient(id, productCode) ==
  /\ FreshCall(id)
  /\ calls' = [calls EXCEPT ![id] =
       [IdleCall EXCEPT !.op = "getItem", !.productCode = productCode,
                        !.pc = "done", !.result = "ok"]]
  /\ UNCHANGED <<store, events>>
GetItemCall(id, productCode) ==
  LET c == [IdleCall EXCEPT !.op = "getItem", !.productCode = productCode]
  IN
  /\ FreshCall(id)
  /\ IF ~findItemById(productCode)
       THEN calls' = [calls EXCEPT ![id] =
              [c EXCEPT !.pc = "failed", !.result = "NotFound"]]
       ELSE LET item == store[productCode] IN
            calls' = [calls EXCEPT ![id] =
              [c EXCEPT !.pc = "done", !.result = "ok", !.name = item.name,
                        !.doc = item.quantity, !.price = item.price]]
  /\ UNCHANGED <<store, events>>

\* --------------------------------------------------------------- checkStock
\* available as checkStock computes it.
AvailableAlways(stock, quantity) == TRUE
Available(stock, quantity) == stock >= quantity

checkStock(productCode, quantity) ==
  IF ~findItemById(productCode)
    THEN [available |-> FALSE,
          message |-> [NoMessage EXCEPT !.text = "Item not found in inventory"],
          currentStock |-> 0]
    ELSE LET inventory == store[productCode]
             available == Available(inventory.quantity, quantity)
         IN [available |-> available,
             message |-> IF available
                           THEN [NoMessage EXCEPT !.text = "Stock available"]
                           ELSE [text |-> "Insufficient stock",
                                 requested |-> quantity,
                                 available |-> inventory.quantity],
             currentStock |-> inventory.quantity]

\* The store as checkStock leaves it: it reads the item and writes nothing.
StoreAfterCheckReserved(productCode, quantity) ==
  IF findItemById(productCode) /\ store[productCode].quantity >= quantity
    THEN [store EXCEPT ![productCode].quantity = @ - quantity]
    ELSE store
StoreAfterCheck(productCode, quantity) == store

\* checkStock(productCode, quantity) called on the service: one lookup, then
\* the reply is returned.
CheckStockCall(id, productCode, quantity) ==
  /\ FreshCall(id)
  /\ calls' = [calls EXCEPT ![id] =
       [IdleCall EXCEPT !.op = "checkStock", !.pc = "done",
                        !.productCode = productCode, !.quantity = quantity,
                        !.result = "ok",
                        !.reply = checkStock(productCode, quantity)]]
  /\ store' = StoreAfterCheck(productCode, quantity)
  /\ UNCHANGED events

\* ------------------------------------------------- broker client (RPC)
\* A correlationId no earlier publishWithResponse call of this client used.
NewCorrelationId == Len(rpcs) + 1

\* publishWithResponse up to its suspension: the waiter is registered under
\* a fresh correlationId and the request is published with that id.
publishWithResponse(o, routingKey, productCode, quantity) ==
  LET id == NewCorrelationId IN
  /\ rpcs' = Append(rpcs, [corr |-> id, owner |-> o, routingKey |-> routingKey,
                           productCode |-> productCode, quantity |-> quantity])
  /\ pending' = pending \cup {[corr |-> id, call |-> Len(rpcs) + 1]}
  /\ requests' = requests \cup {[corr |-> id, routingKey |-> routingKey,
                                 productCode |-> productCode,
                                 quantity |-> quantity]}

\* The waiters a reply tagged corr resolves: those registered under corr.
WaitersOldest(corr) ==
  {w \in pending : \A v \in pending : w.call <= v.call}
Waiters(corr) == {w \in pending : w.corr = corr}

\* The pending-waiter table once the reply tagged corr resolved its waiter.
AfterResolveKeep(corr) == pending
AfterResolve(corr) == pending \ Waiters(corr)

\* The pending-waiter table once the timer of waiter w expired.
AfterTimeoutKeep(w) == pending
AfterTimeout(w) == pending \ {w}

\* The timer of waiter w can expire as long as w is registered.
TimerArmedNever(w) == FALSE
TimerArmed(w) == w \in pending

\* A reply arrives on the reply destination: it resolves the waiter
\* registered under its correlationId and removes it; with no such waiter
\* it is discarded.
DeliverReply(m) ==
  /\ m \in replies
  /\ replies' = replies \ {m}
  /\ IF Waiters(m.corr) = {}
       THEN /\ dropped' = dropped \cup {m.corr}
            /\ UNCHANGED <<pending, outcomes>>
       ELSE /\ pending' = AfterResolve(m.corr)
            /\ outcomes' = [k \in RpcIds |->
                 IF \E w \in Waiters(m.corr) : w.call = k
                   THEN Append(outcomes[k],
                               [kind |-> "resolved", from |-> m.corr,
                                payload |-> <<m.payload>>])
                   ELSE outcomes[k]]
            /\ UNCHANGED dropped
  /\ UNCHANGED <<store, events, calls, procs, orders, rpcs, requests, served>>

\* The timer of a publishWithResponse call expires: its waiter, if still
\* registered, is rejected with TimedOut and removed.
Timeout(w) ==
  /\ TimerArmed(w)
  /\ pending' = AfterTimeout(w)
  /\ outcomes' = [outcomes EXCEPT ![w.call] =
       Append(@, [kind |-> "TimedOut", from |-> 0, payload |-> <<>>])]
  /\ UNCHANGED <<store, events, calls, procs, orders, rpcs, requests, replies,
                 served, dropped>>

\* ------------------------------------------------- inventory responder
Reply(corr, payload) ==
  /\ replies' = replies \cup {[corr |-> corr, payload |-> payload]}
  /\ served' = [served EXCEPT ![corr] = Append(@, payload)]

\* inventory.stock.check: checkStock's result, with the item's unit price.
CheckReply(productCode, quantity) ==
  LET r == checkStock(productCode, quantity) IN
  [available |-> r.available, message |-> r.message,
   currentStock |-> r.currentStock,
   unitPrice |-> IF findItemById(productCode) THEN store[productCode].price
                                             ELSE 0]

HandleCheck(m) ==
  /\ m \in requests /\ m.routingKey = "inventory.stock.check"
  /\ requests' = requests \ {m}
  /\ Reply(m.corr, CheckReply(m.productCode, m.quantity))
  /\ store' = StoreAfterCheck(m.productCode, m.quantity)
  /\ UNCHANGED <<events, calls, procs, orders, rpcs, pending, outcomes,
                 dropped>>

\* The reply to inventory.stock.deduct once deductStock returned or threw.
DeductReply(c) ==
  IF c.result = "ok"
    THEN [success |-> TRUE, error |-> "", message |-> NoMessage]
    ELSE [success |-> FALSE,
          error |-> IF c.result = "PublishFailed" THEN "InternalError"
                                                  ELSE c.result,
          message |-> CASE c.result = "NotFound" ->
                             [NoMessage EXCEPT !.text = "Item not found"]
                        [] c.result = "InsufficientStock" ->
                             [text |-> "Insufficient stock",
                              requested |-> c.quantity, available |-> c.doc]
                        [] OTHER ->
                             [NoMessage EXCEPT !.text = "publish failed"]]

\* inventory.stock.deduct: deductStock is invoked; when it throws at once
\* the failure is replied at once.
HandleDeduct(m) ==
  /\ m \in requests /\ m.routingKey = "inventory.stock.deduct"
  /\ requests' = requests \ {m}
  /\ \E id \in CallIds :
       /\ DeductGetItem(id, m.productCode, m.quantity, m.corr)
       /\ IF calls'[id].pc = "failed"
            THEN Reply(m.corr, DeductReply(calls'[id]))
            ELSE UNCHANGED <<replies, served>>
  /\ UNCHANGED <<store, events, procs, orders, rpcs, pending, outcomes, dropped>>

HandleDeductSave(id) ==
  /\ calls[id].corr # 0
  /\ DeductSave(id)
  /\ UNCHANGED <<procs, orders, rpcs, pending, outcomes, requests, replies,
                 served, dropped>>

\* deductStock returned (the event was published) or threw (it was not).
HandleDeductDone(id) ==
  /\ calls[id].corr # 0
  /\ \/ PublishOk(id)
     \/ PublishFail(id)
  /\ Reply(calls[id].corr, DeductReply(calls'[id]))
  /\ UNCHANGED <<procs, orders, rpcs, pending, outcomes, requests, dropped>>

\* ------------------------------------------------- order choreography
IdleProc ==
  [pc |-> "idle", productCode |-> "", quantity |-> 0, check |-> 0,
   deduct |-> 0, totalPrice |-> 0, order |-> 0, write |-> "",
   error |-> [kind |-> "", message |-> NoMessage, status |-> 0]]

FreshProc(o) ==
  /\ procs[o].pc = "idle"
  /\ \A j \in OrderIds : j < o => procs[j].pc # "idle"

\* Step 1: quantity is a positive integer and productCode is not empty.
ValidOrderNoCheck(productCode, quantity) == TRUE
ValidOrder(productCode, quantity) == quantity > 0 /\ productCode # ""

\* The HTTP status the caller of createOrder gets for an error kind: 400
\* for a validation failure and for an insufficient-stock rejection alike.
CallerStatusPerKind(kind) ==
  CASE kind = "ValidationError" -> 400
    [] kind = "InsufficientStock" -> 409
    [] kind = "NotFound" -> 404
    [] kind = "UpstreamUnavailable" -> 503
    [] OTHER -> 500
CallerStatus(kind) ==
  CASE kind = "ValidationError" -> 400
    [] kind = "InsufficientStock" -> 400
    [] kind = "NotFound" -> 404
    [] kind = "UpstreamUnavailable" -> 503
    [] OTHER -> 500

Fail(p, kind, message) ==
  [p EXCEPT !.pc = "failed",
            !.error = [kind |-> kind, message |-> message,
                       status |-> CallerStatus(kind)]]

\* createOrder(productCode, quantity), steps 1 and 2 up to the suspension
\* on the stock-check request.
CreateOrder(o, productCode, quantity) ==
  LET p == [IdleProc EXCEPT !.productCode = productCode, !.quantity = quantity]
  IN
  /\ FreshProc(o)
  /\ IF ~ValidOrder(productCode, quantity)
       THEN /\ procs' = [procs EXCEPT ![o] =
                 Fail(p, "ValidationError", NoMessage)]
            /\ UNCHANGED <<rpcs, pending, requests>>
       ELSE /\ procs' = [procs EXCEPT ![o] =
                 [p EXCEPT !.pc = "awaitCheck", !.check = Len(rpcs) + 1]]
            /\ publishWithResponse(o, "inventory.stock.check", productCode,
                                   quantity)
  /\ UNCHANGED <<store, events, calls, orders, outcomes, replies, served,
                 dropped>>

\* Step 3.
TotalPriceUnit(quantity, unitPrice) == unitPrice
TotalPrice(quantity, unitPrice) == quantity * unitPrice

\* Steps 2 to 4: the stock-check request completed; on availability the
\* total is computed and the stock-deduct request is issued.
AfterCheck(o) ==
  LET p == procs[o]
      out == outcomes[p.check][1]
  IN
  /\ p.pc = "awaitCheck"
  /\ outcomes[p.check] # <<>>
  /\ IF out.kind = "TimedOut"
       THEN /\ procs' = [procs EXCEPT ![o] =
                 Fail(p, "UpstreamUnavailable", NoMessage)]
            /\ UNCHANGED <<rpcs, pending, requests>>
       ELSE LET r == out.payload[1] IN
            IF ~r.available
              THEN /\ procs' = [procs EXCEPT ![o] =
                        Fail(p, "InsufficientStock", r.message)]
                   /\ UNCHANGED <<rpcs, pending, requests>>
              ELSE /\ procs' = [procs EXCEPT ![o] =
                        [p EXCEPT !.pc = "awaitDeduct",
                                  !.totalPrice = TotalPrice(p.quantity, r.unitPrice),
                                  !.deduct = Len(rpcs) + 1]]
                   /\ publishWithResponse(o, "inventory.stock.deduct",
                                          p.productCode, p.quantity)
  /\ UNCHANGED <<store, events, calls, orders, outcomes, replies, served,
                 dropped>>

\* Step 4: the error createOrder reports for a completed stock-deduct
\* request (kind "": none, the deduction succeeded).
DeductErrorNone(out) == [kind |-> "", message |-> NoMessage]
DeductError(out) ==
  IF out.kind = "TimedOut"
    THEN [kind |-> "UpstreamUnavailable", message |-> NoMessage]
    ELSE IF ~out.payload[1].success
           THEN [kind |-> out.payload[1].error,
                 message |-> out.payload[1].message]
           ELSE [kind |-> "", message |-> NoMessage]

\* Step 5: the status an order is persisted with.
StatusPending == "PENDING"
StatusPersisted == "CONFIRMED"

\* Step 5: the inventory store as createOrder leaves it when the order store
\* refused the write: untouched, the deduction is not compensated.
StoreOnRefusal(p) == store

\* Steps 4 to 6: the stock-deduct request completed; on success the order
\* is persisted with status CONFIRMED and returned.  The order store may
\* refuse the write; the deduction is then not compensated.
AfterDeduct(o) ==
  LET p == procs[o]
      e == DeductError(outcomes[p.deduct][1])
  IN
  /\ p.pc = "awaitDeduct"
  /\ outcomes[p.deduct] # <<>>
  /\ IF e.kind # ""
       THEN /\ procs' = [procs EXCEPT ![o] = Fail(p, e.kind, e.message)]
            /\ UNCHANGED <<orders, store>>
       ELSE \E accepted \in BOOLEAN :
              IF accepted
                THEN /\ orders' = Append(orders,
                          [id |-> Len(orders) + 1,
                           productCode |-> p.productCode,
                           quantity |-> p.quantity,
                           totalPrice |-> p.totalPrice,
                           status |-> StatusPersisted, proc |-> o])
                     /\ procs' = [procs EXCEPT ![o] =
                          [p EXCEPT !.pc = "done", !.order = Len(orders) + 1,
                                    !.write = "ok"]]
                     /\ UNCHANGED store
                ELSE /\ procs' = [procs EXCEPT ![o] =
                          [Fail(p, "InternalError", NoMessage)
                             EXCEPT !.write = "refused"]]
                     /\ store' = StoreOnRefusal(p)
                     /\ UNCHANGED orders
  /\ UNCHANGED <<events, calls, rpcs, pending, outcomes, requests,
                 replies, served, dropped>>

\* ------------------------------------------------- initial state
InitStore ==
  \E q \in Quantities : \E pr \in Prices : \E n \in Names :
    store = [p \in {"PROD-1"} |->
               [name |-> n, quantity |-> q, price |-> pr, initial |-> q]]

Init ==
  /\ InitStore
  /\ events = <<>>
  /\ calls = [id \in CallIds |-> IdleCall]
  /\ procs = [o \in OrderIds |-> IdleProc]
  /\ orders = <<>>
  /\ rpcs = <<>>
  /\ pending = {}
  /\ outcomes = [k \in RpcIds |-> <<>>]
  /\ requests = {}
  /\ replies = {}
  /\ served = [k \in RpcIds |-> <<>>]
  /\ dropped = {}

\* ------------------------------------------------- the inventory service alone
\* Callers of the inventory service; arguments have passed the
\* ValidationPipe (quantity >= 0 on create and update, > 0 on deduct).
CallDeduct ==
  /\ \E id \in CallIds : \E p \in OpCodes : \E q \in DeductQuantities :
       DeductGetItem(id, p, q, 0)
  /\ UNCHANGED <<store, events, orderVars, brokerVars>>

CallUpdate ==
  /\ \E id \in CallIds : \E p \in OpCodes : \E q \in UpdateQuantities :
       UpdateFind(id, p, q)
  /\ UNCHANGED <<store, events, orderVars, brokerVars>>

CallCreateWithCode ==
  /\ \E id \in CallIds : \E p \in OpCodes : \E n \in Names :
       \E q \in CreateQuantities : \E pr \in Prices :
         CreateLookup(id, p, n, q, pr)
  /\ UNCHANGED <<store, events, orderVars, brokerVars>>

CallCreateWithoutCode ==
  /\ \E id \in CallIds : \E n \in Names : \E q \in CreateQuantities :
       \E pr \in Prices : CreateGenerate(id, n, q, pr)
  /\ UNCHANGED <<store, events, orderVars, brokerVars>>

CallGetItem ==
  /\ \E id \in CallIds : \E p \in OpCodes : GetItemCall(id, p)
  /\ UNCHANGED <<orderVars, brokerVars>>

CallCheck ==
  /\ \E id \in CallIds : \E p \in OpCodes : \E q \in CheckQuantities :
       CheckStockCall(id, p, q)
  /\ UNCHANGED <<orderVars, brokerVars>>

StepDeductSave ==
  (\E id \in CallIds : DeductSave(id)) /\ UNCHANGED <<orderVars, brokerVars>>

StepUpdateWrite ==
  (\E id \in CallIds : UpdateWrite(id)) /\ UNCHANGED <<orderVars, brokerVars>>

StepGenerate ==
  /\ \E id \in CallIds : generateUniqueProductCode(id)
  /\ UNCHANGED <<orderVars, brokerVars>>

StepCreateInsert ==
  (\E id \in CallIds : CreateInsert(id)) /\ UNCHANGED <<orderVars, brokerVars>>

StepPublishOk ==
  (\E id \in CallIds : PublishOk(id)) /\ UNCHANGED <<orderVars, brokerVars>>

StepPublishFail ==
  (\E id \in CallIds : PublishFail(id)) /\ UNCHANGED <<orderVars, brokerVars>>

NextInv ==
  \/ CallDeduct
  \/ CallUpdate
  \/ CallCreateWithCode
  \/ CallCreateWithoutCode
  \/ CallGetItem
  \/ CallCheck
  \/ StepDeductSave
  \/ StepUpdateWrite
  \/ StepGenerate
  \/ StepCreateInsert
  \/ StepPublishOk
  \/ StepPublishFail

SpecInv == Init /\ [][NextInv]_vars

\* The loop turn of call id in which Math.random yields a code the store
\* does not hold.  A fair random choice yields such a code sooner or later
\* as long as one exists.
GenerateFresh(id) ==
  /\ generateUniqueProductCode(id)
  /\ calls'[id].pc = "insert"
  /\ UNCHANGED <<orderVars, brokerVars>>

FairSpecInv == SpecInv /\ \A id \in CallIds : WF_vars(GenerateFresh(id))

\* ------------------------------------------------- the two services together
OrderCreate ==
  \E o \in OrderIds : \E p \in OrderCodes : \E q \in OrderQuantities :
    CreateOrder(o, p, q)

OrderAfterCheck == \E o \in OrderIds : AfterCheck(o)

OrderAfterDeduct == \E o \in OrderIds : AfterDeduct(o)

ResponderCheck == \E m \in requests : HandleCheck(m)

ResponderDeduct == \E m \in requests : HandleDeduct(m)

ResponderDeductSave == \E id \in CallIds : HandleDeductSave(id)

ResponderDeductDone == \E id \in CallIds : HandleDeductDone(id)

ClientReply == \E m \in replies : DeliverReply(m)

ClientTimeout == \E w \in pending : Timeout(w)

Next ==
  \/ OrderCreate
  \/ OrderAfterCheck
  \/ OrderAfterDeduct
  \/ ResponderCheck
  \/ ResponderDeduct
  \/ ResponderDeductSave
  \/ ResponderDeductDone
  \/ ClientReply
  \/ ClientTimeout

Spec == Init /\ [][Next]_vars

\* Each publishWithResponse call arms a timer of its own, which the runtime
\* fires unless the waiter is removed first.
TimerOf(k) == \E w \in pending : w.call = k /\ Timeout(w)

FairSpec == Spec /\ \A k \in RpcIds : WF_vars(TimerOf(k))

\* =================================================================== claims
\* ---- helpers of the claims
IsDeduct(i) == calls[i].op = "deductStock"

\* Invocation i wrote the store (its save, write or insert was done).
Saved(i) ==
  /\ calls[i].op \in {"deductStock", "updateStock", "createItem"}
  /\ calls[i].pc \in {"publish", "done"} \/ calls[i].result = "PublishFailed"

\* The stock invocation i of deductStock read, when it passed the check.
StockRead(i) == calls[i].doc + calls[i].quantity

Issued(k) == k \in 1..Len(rpcs)
Completed(k) == outcomes[k] # <<>>
Resolved(k) == Completed(k) /\ outcomes[k][1].kind = "resolved"
TimedOut(k) == Completed(k) /\ outcomes[k][1].kind = "TimedOut"
Payload(k) == outcomes[k][1].payload[1]
HasWaiter(k) == \E w \in pending : w.call = k

CheckSucceeded(p) == p.check # 0 /\ Resolved(p.check) /\ Payload(p.check).available
DeductSucceeded(p) == p.deduct # 0 /\ Resolved(p.deduct) /\ Payload(p.deduct).success
OrdersOf(o) == {i \in 1..Len(orders) : orders[i].proc = o}

\* createOrder invocation o returned an order: it is the one persisted, with
\* status CONFIRMED, the requested productCode and quantity, and
\* totalPrice = quantity x the item's unit price.
ReturnedConfirmed(o) ==
  LET p == procs[o] IN
  /\ p.pc = "done"
  /\ OrdersOf(o) = {p.order}
  /\ orders[p.order].status = "CONFIRMED"
  /\ orders[p.order].productCode = p.productCode
  /\ orders[p.order].quantity = p.quantity
  /\ orders[p.order].totalPrice = p.quantity * store[p.productCode].price

\* ---- C1
\* C1: when two deductStock requests for the same productCode are processed
\* concurrently (one reads the item while the other has read it and not yet
\* saved) and their combined quantity exceeds the stock read, at most one
\* of them succeeds.
C1_AtMostOneConcurrentDeductSucceeds ==
  \A i, j \in CallIds :
    ( /\ i # j /\ IsDeduct(i) /\ IsDeduct(j)
      /\ calls[i].productCode = calls[j].productCode
      /\ j \in calls[i].overlap
      /\ calls[i].quantity + calls[j].quantity > StockRead(i) )
    => ~(calls[i].result = "ok" /\ calls[j].result = "ok")

\* ---- C2
\* C2: in every reachable state, under any interleaving of createItem,
\* updateStock and deductStock calls with validated quantities, every
\* stored item's quantity is >= 0.
C2_QuantityNeverNegative == \A p \in DOMAIN store : store[p].quantity >= 0

\* Two deductions raced (both passed the check on the same stock, which
\* their combined quantity exceeds) and both saved.
C2_Witness ==
  \E i, j \in CallIds :
    /\ i # j /\ IsDeduct(i) /\ IsDeduct(j)
    /\ j \in calls[i].overlap
    /\ calls[i].quantity + calls[j].quantity > StockRead(i)
    /\ Saved(i) /\ Saved(j)

C4_InsufficientStockRejected ==
  \A o \in OrderIds :
    LET p == procs[o] IN
    ( /\ p.check # 0 /\ Resolved(p.check) /\ p.pc # "awaitCheck"
      /\ p.quantity > Payload(p.check).currentStock )
    => /\ p.pc = "failed"
       /\ p.error.kind = "InsufficientStock"
       /\ p.error.message = served[rpcs[p.check].corr][1].message
       /\ p.deduct = 0
       /\ OrdersOf(o) = {}

C4_Witness ==
  \E o \in OrderIds :
    LET p == procs[o] IN
    /\ p.check # 0 /\ Resolved(p.check) /\ p.pc = "failed"
    /\ p.quantity > Payload(p.check).currentStock
    /\ p.error.message.text = "Insufficient stock"
    /\ p.error.message.available < p.error.message.requested

C6_CompletedExactlyOnce ==
  /\ \A k \in RpcIds : Len(outcomes[k]) <= 1
  /\ \A v, w \in pending : v.corr = w.corr => v = w
  /\ \A k \in RpcIds : HasWaiter(k) <=> (Issued(k) /\ ~Completed(k))

\* One request was resolved by its reply, another by its timer, whose
\* reply came afterwards.
C6_Witness ==
  \E j, k \in RpcIds :
    /\ Resolved(j) /\ TimedOut(k)
    /\ rpcs[k].corr \in dropped

\* ---- C7
\* C7: a reply that arrives after its request timed out is dropped: it
\* resolves no waiter, and leaves the pending-waiter table, every
\* request's completions and every createOrder call unchanged; the caller
\* has received TimedOut exactly once.
LateReply(m) == \E k \in 1..Len(rpcs) : rpcs[k].corr = m.corr /\ TimedOut(k)

C7_LateReplyDropped ==
  [][\A m \in replies :
       (m \notin replies' /\ LateReply(m))
       => /\ pending' = pending
          /\ outcomes' = outcomes
          /\ procs' = procs /\ orders' = orders
          /\ \A k \in 1..Len(rpcs) :
               rpcs[k].corr = m.corr
               => outcomes'[k] = <<[kind |-> "TimedOut", from |-> 0,
                                    payload |-> <<>>]>>]_vars

\* A late reply was dropped while another request was outstanding.
C7_Witness ==
  \E k \in RpcIds :
    /\ TimedOut(k) /\ rpcs[k].corr \in dropped
    /\ \E j \in RpcIds : j # k /\ HasWaiter(j)

\* ---- C8
\* C8: with several requests outstanding, a reply carrying correlationId c
\* completes only the request registered under c, with that reply's
\* payload, in whatever order the replies arrive.
C8_ReplyCompletesItsOwnRequest ==
  \A k \in 1..Len(rpcs) : \A i \in 1..Len(outcomes[k]) :
    outcomes[k][i].kind = "resolved"
    => /\ outcomes[k][i].from = rpcs[k].corr
       /\ served[rpcs[k].corr] # <<>>
       /\ outcomes[k][i].payload = <<served[rpcs[k].corr][1]>>
       /\ (rpcs[k].routingKey = "inventory.stock.check")
            <=> ("available" \in DOMAIN outcomes[k][i].payload[1])

\* The reply to the later of two outstanding requests arrived first.
C8_Witness ==
  \E j, k \in RpcIds :
    /\ j < k /\ Resolved(k)
    /\ HasWaiter(j)
    /\ \E m \in replies : m.corr = rpcs[j].corr

\* ---- C9
\* C9: every publishWithResponse call eventually completes (with no reply
\* it is rejected with TimedOut by its timer), and once it is completed no
\* waiter for it remains in the pending table.
C9_EveryRequestCompletes ==
  /\ \A k \in RpcIds : Issued(k) ~> (Completed(k) /\ ~HasWaiter(k))
  /\ [](\A k \in 1..Len(rpcs) :
         (Completed(k) /\ served[rpcs[k].corr] = <<>>) => TimedOut(k))
  /\ [](\A k \in RpcIds : Completed(k) => ~HasWaiter(k))

\* A request completed by its timer alone: the responder never took it.
C9_Witness ==
  \E k \in RpcIds :
    /\ TimedOut(k) /\ ~HasWaiter(k)
    /\ \E m \in requests : m.corr = rpcs[k].corr

\* ---- C10
\* C10: an order is persisted only by a createOrder call whose stock check
\* reported availability and whose stock-deduct request replied success;
\* when the deduct request fails (NotFound, InsufficientStock, another
\* responder error, or timeout) the call fails with the corresponding
\* error and persists nothing.
CorrespondingError(k) ==
  IF TimedOut(k) THEN "UpstreamUnavailable"
                 ELSE served[rpcs[k].corr][1].error

C10_PersistOnlyAfterDeduct ==
  /\ \A i \in 1..Len(orders) :
       LET p == procs[orders[i].proc] IN
       /\ CheckSucceeded(p) /\ DeductSucceeded(p)
       /\ rpcs[p.check].owner = orders[i].proc
       /\ rpcs[p.deduct].owner = orders[i].proc
  /\ \A o \in OrderIds :
       LET p == procs[o] IN
       ( /\ p.deduct # 0 /\ Completed(p.deduct) /\ p.pc # "awaitDeduct"
         /\ ~DeductSucceeded(p) )
       => /\ p.pc = "failed"
          /\ p.error.kind = CorrespondingError(p.deduct)
          /\ p.error.kind # ""
          /\ OrdersOf(o) = {}

\* A deduction lost the race against another order's deduction after both
\* checks reported availability.
C10_Witness ==
  \E o \in OrderIds :
    /\ CheckSucceeded(procs[o])
    /\ procs[o].pc = "failed"
    /\ procs[o].error.kind = "InsufficientStock"
    /\ procs[o].deduct # 0 /\ Resolved(procs[o].deduct)

\* ---- C11
\* C11: in every reachable state every order in the order store has status
\* CONFIRMED; a createOrder call that failed, at whatever step, left no
\* order in the store.
C11_OnlyConfirmedOrdersPersisted ==
  /\ \A i \in 1..Len(orders) : orders[i].status = "CONFIRMED"
  /\ \A o \in OrderIds : procs[o].pc = "failed" => OrdersOf(o) = {}

\* One order is in the store while another call failed after it had issued
\* its deduction request.
C11_Witness ==
  /\ Len(orders) = 1
  /\ \E o \in OrderIds :
       /\ procs[o].pc = "failed" /\ procs[o].deduct # 0
       /\ procs[o].error.kind \in {"InsufficientStock", "InternalError",
                                   "UpstreamUnavailable"}

\* ---- C12
\* C12: when the order store refuses the write after the stock-deduct
\* request succeeded, createOrder fails and no compensation runs: no order
\* exists for that deduction, the call issued nothing beyond its check and
\* its deduction, and the item's stock stays reduced by the order quantity
\* (it is at most the stock the deduction read less the order quantity;
\* nothing in the system raises a stock).
DeductCallsOf(o) ==
  {i \in CallIds : /\ calls[i].corr # 0
                   /\ calls[i].corr \in 1..Len(rpcs)
                   /\ rpcs[calls[i].corr].owner = o}

RefusedWriteLeavesDeduction(o) ==
  LET p == procs[o] IN
  /\ DeductSucceeded(p)
  /\ p.pc = "failed" /\ p.error.kind = "InternalError"
  /\ OrdersOf(o) = {}
  /\ {k \in 1..Len(rpcs) : rpcs[k].owner = o} = {p.check, p.deduct}
  /\ DeductCallsOf(o) # {}
  /\ \A i \in DeductCallsOf(o) :
       /\ calls[i].result = "ok" /\ calls[i].wrote
       /\ calls[i].quantity = p.quantity
       /\ store[p.productCode].quantity <= StockRead(i) - p.quantity

C12_RefusedWriteNotCompensated ==
  \A o \in OrderIds :
    procs[o].write = "refused" => RefusedWriteLeavesDeduction(o)

\* ---- C13
\* C13: deductStock on a productCode absent from the store fails with
\* NotFound, and on an item whose quantity is less than the requested
\* quantity fails with InsufficientStock; the failing call leaves the store
\* and the published events unchanged, and takes no further step (it saves
\* nothing and publishes nothing afterwards).
C13_DeductFailuresLeaveStoreAlone ==
  [][\A i \in CallIds :
       /\ (calls[i].pc = "idle" /\ calls'[i].op = "deductStock")
            => LET c == calls'[i] IN
               /\ c.productCode \notin DOMAIN store
                    => /\ c.pc = "failed" /\ c.result = "NotFound"
                       /\ store' = store /\ events' = events
               /\ ( /\ c.productCode \in DOMAIN store
                    /\ store[c.productCode].quantity < c.quantity )
                    => /\ c.pc = "failed" /\ c.result = "InsufficientStock"
                       /\ store' = store /\ events' = events
       /\ (IsDeduct(i) /\ calls[i].pc = "failed"
             /\ calls[i].result \in {"NotFound", "InsufficientStock"})
            => calls'[i] = calls[i]]_vars

\* One deduction failed on an absent productCode, another on an item with
\* too little stock.
C13_Witness ==
  \E i, j \in CallIds :
    /\ IsDeduct(i) /\ calls[i].result = "NotFound"
    /\ calls[i].productCode \notin DOMAIN store
    /\ IsDeduct(j) /\ calls[j].result = "InsufficientStock"
    /\ store[calls[j].productCode].quantity < calls[j].quantity
    /\ events = <<>>

\* ---- C14
\* C14: checkStock(productCode, quantity) replies available = false with
\* message "Item not found in inventory" when the item is absent; otherwise
\* it replies available = (quantity <= item.quantity) and currentStock =
\* item.quantity.  This holds of every checkStock call made, and of every
\* productCode and quantity in every reachable store.
CheckStockAnswers(productCode, quantity, r) ==
  IF productCode \notin DOMAIN store
    THEN /\ r.available = FALSE
         /\ r.message.text = "Item not found in inventory"
    ELSE /\ r.available = (quantity <= store[productCode].quantity)
         /\ r.currentStock = store[productCode].quantity

IsCheck(i) == calls[i].op = "checkStock"

C14_CheckStockReply ==
  /\ [](\A p \in OrderCodes \cup OpCodes \cup GenCodes :
         \A q \in OrderQuantities :
           CheckStockAnswers(p, q, checkStock(p, q)))
  /\ [][\A i \in CallIds :
         (calls[i].pc = "idle" /\ calls'[i].op = "checkStock")
         => CheckStockAnswers(calls'[i].productCode, calls'[i].quantity,
                              calls'[i].reply)]_vars

\* One check found no item, another found an item whose stock did not cover
\* the quantity.
C14_Witness ==
  \E i, j \in CallIds :
    /\ IsCheck(i)
    /\ calls[i].reply.message.text = "Item not found in inventory"
    /\ IsCheck(j) /\ calls[j].productCode \in DOMAIN store
    /\ ~calls[j].reply.available
    /\ calls[j].reply.currentStock > 0
    /\ calls[j].quantity > calls[j].reply.currentStock

\* ---- C15
\* C15: checkStock is side-effect-free: for every input a checkStock call
\* leaves every stored item (in particular every quantity) unchanged,
\* publishes no stock event, and touches no other call in flight.
C15_CheckStockSideEffectFree ==
  [][\A i \in CallIds :
       (calls[i].pc = "idle" /\ calls'[i].op = "checkStock")
       => /\ store' = store
          /\ events' = events
          /\ \A j \in CallIds \ {i} : calls'[j] = calls[j]]_vars

\* A check found the stock sufficient while a deduction of the same item
\* had read the stock and not yet saved it.
C15_Witness ==
  \E i, j \in CallIds :
    /\ i < j /\ IsCheck(j) /\ calls[j].reply.available
    /\ IsDeduct(i) /\ calls[i].pc = "save"
    /\ calls[i].productCode = calls[j].productCode

\* ---- C16
\* C16: a successful createItem or updateStock emits an event whose type is
\* STOCK_ADDED when the new quantity is >= the previous quantity (including
\* when they are equal) and STOCK_REDUCED otherwise, createItem counting the
\* previous quantity as 0.
IsCreateOrUpdate(i) == calls[i].op \in {"createItem", "updateStock"}

Returns(i) == calls[i].pc = "publish" /\ calls'[i].pc = "done"

C16_EventTypeFollowsDelta ==
  [][\A i \in CallIds :
       (IsCreateOrUpdate(i) /\ Returns(i))
       => /\ Len(events') = Len(events) + 1
          /\ LET e == events'[Len(events')] IN
             /\ e.productCode = calls[i].productCode
             /\ e.newQuantity = calls[i].quantity
             /\ e.previousQuantity =
                  (IF calls[i].op = "createItem" THEN 0 ELSE calls[i].doc)
             /\ e.eventType =
                  (IF e.newQuantity >= e.previousQuantity
                     THEN STOCK_ADDED ELSE STOCK_REDUCED)]_vars

\* ---- C17
\* C17: if publishing the stock event fails during createItem or
\* updateStock, the operation reports an error to its caller and the store
\* write it already made stays committed: the write put the created item,
\* or the new quantity, in the store, the failing step leaves the store as
\* it is, and the failed call takes no further step.
Writes(i) == calls[i].pc \in {"insert", "write"} /\ calls'[i].pc = "publish"

PublishFails(i) == calls[i].pc = "publish" /\ calls'[i].pc = "failed"

C17_PublishFailureKeepsWrite ==
  /\ [][\A i \in CallIds :
         /\ (IsCreateOrUpdate(i) /\ Writes(i))
              => /\ calls[i].productCode \in DOMAIN store'
                 /\ store'[calls[i].productCode].quantity = calls[i].quantity
         /\ (IsCreateOrUpdate(i) /\ PublishFails(i))
              => /\ calls'[i].result = "PublishFailed"
                 /\ store' = store
                 /\ events' = events
         /\ (IsCreateOrUpdate(i) /\ calls[i].result = "PublishFailed")
              => calls'[i] = calls[i]]_vars
  /\ [](\A i \in CallIds :
         (IsCreateOrUpdate(i) /\ calls[i].result = "PublishFailed")
         => /\ calls[i].pc = "failed"
            /\ calls[i].productCode \in DOMAIN store
            /\ store[calls[i].productCode].name = calls[i].name
            /\ (\A j \in CallIds \ {i} :
                   ~(Saved(j) /\ calls[j].productCode = calls[i].productCode))
                => store[calls[i].productCode].quantity = calls[i].quantity)

\* A createItem and an updateStock of the item it created both failed in
\* their publish: the item exists, with the updated quantity.
C17_Witness ==
  \E i, j \in CallIds :
    /\ calls[i].op = "createItem" /\ calls[i].result = "PublishFailed"
    /\ calls[j].op = "updateStock" /\ calls[j].result = "PublishFailed"
    /\ calls[j].productCode = calls[i].productCode
    /\ calls[j].quantity # calls[i].quantity
    /\ store[calls[j].productCode].quantity = calls[j].quantity
    /\ events = <<>>

\* ---- C18
\* C18: createItem with a supplied productCode that already exists in the
\* store fails with Conflict, leaves the existing item (and the rest of the
\* store) unchanged and publishes no event, then or later.
C18_DuplicateCodeConflicts ==
  [][\A i \in CallIds :
       /\ ( /\ calls[i].pc = "idle" /\ calls'[i].op = "createItem"
            /\ calls'[i].productCode # ""
            /\ calls'[i].productCode \in DOMAIN store )
            => /\ calls'[i].pc = "failed" /\ calls'[i].result = "Conflict"
               /\ store' = store
               /\ events' = events
       /\ calls[i].result = "Conflict" => calls'[i] = calls[i]]_vars

\* A second createItem with the code of an item a first createItem created
\* was refused; the item keeps the first call's quantity.
C18_Witness ==
  \E i, j \in CallIds :
    /\ calls[i].op = "createItem" /\ calls[i].pc = "done"
    /\ calls[j].op = "createItem" /\ calls[j].result = "Conflict"
    /\ calls[j].productCode = calls[i].productCode
    /\ calls[j].quantity # calls[i].quantity
    /\ store[calls[i].productCode].quantity = calls[i].quantity

\* ---- C19
\* C19: getItem and updateStock on a productCode absent from the store fail
\* with NotFound; updateStock then writes nothing to the store and
\* publishes no event, then or later.
IsGetOrUpdate(i) == calls[i].op \in {"getItem", "updateStock"}

C19_AbsentItemNotFound ==
  [][\A i \in CallIds :
       /\ ( /\ calls[i].pc = "idle"
            /\ calls'[i].op \in {"getItem", "updateStock"}
            /\ calls'[i].productCode \notin DOMAIN store )
            => /\ calls'[i].pc = "failed" /\ calls'[i].result = "NotFound"
               /\ store' = store
               /\ events' = events
       /\ (IsGetOrUpdate(i) /\ calls[i].result = "NotFound")
            => calls'[i] = calls[i]]_vars

\* A getItem and an updateStock of an absent productCode both failed.
C19_Witness ==
  \E i, j \in CallIds :
    /\ calls[i].op = "getItem" /\ calls[i].result = "NotFound"
    /\ calls[j].op = "updateStock" /\ calls[j].result = "NotFound"
    /\ calls[i].productCode \notin DOMAIN store
    /\ calls[j].productCode \notin DOMAIN store
    /\ events = <<>>

\* ---- C20
\* C20: round trip: once createItem without a supplied productCode has
\* returned, getItem on the returned productCode succeeds and yields the
\* name and price given to createItem, and the quantity given when no
\* other call wrote to that item.
Created(i) ==
  calls[i].op = "createItem" /\ calls[i].generated /\ calls[i].pc = "done"

OtherWrite(i) ==
  \E k \in CallIds \ {i} :
    Saved(k) /\ calls[k].productCode = calls[i].productCode

C20_CreateThenGetRoundTrip ==
  [][\A i, j \in CallIds :
       ( /\ Created(i)
         /\ calls[j].pc = "idle" /\ calls'[j].op = "getItem"
         /\ calls'[j].productCode = calls[i].productCode )
       => /\ calls'[j].pc = "done" /\ calls'[j].result = "ok"
          /\ calls'[j].name = calls[i].name
          /\ calls'[j].price = calls[i].price
          /\ ~OtherWrite(i) => calls'[j].doc = calls[i].quantity]_vars

\* getItem returned an item that createItem had created with a generated
\* code and a positive stock.
C20_Witness ==
  \E i, j \in CallIds :
    /\ Created(i) /\ calls[i].productCode \in GenCodes
    /\ calls[i].quantity > 0
    /\ calls[j].op = "getItem" /\ calls[j].result = "ok"
    /\ calls[j].productCode = calls[i].productCode
    /\ calls[j].doc = calls[i].quantity
    /\ calls[j].name = calls[i].name /\ calls[j].price = calls[i].price

\* ---- C21
\* C21 as stated: each createOrder error kind is reported with a status of
\* its own; in particular an insufficient-stock rejection and a validation
\* failure are reported with different statuses.
FailedWith(o, kind) == procs[o].pc = "failed" /\ procs[o].error.kind = kind

C21_DistinctStatusPerErrorKind ==
  \A o1, o2 \in OrderIds :
    (FailedWith(o1, "InsufficientStock") /\ FailedWith(o2, "ValidationError"))
    => procs[o1].error.status # procs[o2].error.status

\* C21 amended: an insufficient-stock rejection at the stock check and a
\* validation failure are both reported with status 400 (bad-request
\* class); the insufficient-stock rejection carries the responder's
\* message.
C21_InsufficientStockAndValidationShareStatus ==
  \A o \in OrderIds :
    LET p == procs[o] IN
    /\ FailedWith(o, "ValidationError") => p.error.status = 400
    /\ (FailedWith(o, "InsufficientStock") /\ p.deduct = 0)
         => /\ p.error.status = 400
            /\ p.error.message = served[rpcs[p.check].corr][1].message

\* One call was rejected for insufficient stock at the check, another
\* failed validation.
C21_Witness ==
  \E o1, o2 \in OrderIds :
    /\ FailedWith(o1, "InsufficientStock") /\ procs[o1].deduct = 0
    /\ procs[o1].error.message.text = "Insufficient stock"
    /\ FailedWith(o2, "ValidationError")
    /\ procs[o1].error.status = procs[o2].error.status

\* ---- C22
\* C22: every createItem, updateStock and deductStock call that returns
\* success has published exactly one stock event for its productCode, and
\* published it after its store write completed; no event is published by
\* a call whose store write did not happen.
IsWriter(i) == calls[i].op \in {"createItem", "updateStock", "deductStock"}

Succeeded(i) == IsWriter(i) /\ calls[i].pc = "done" /\ calls[i].result = "ok"

C22_OneEventPerSuccessAfterWrite ==
  /\ [](Len(events) = Cardinality({i \in CallIds : Succeeded(i)}))
  /\ [][events' # events
        => \E i \in CallIds :
             /\ IsWriter(i) /\ calls[i].wrote /\ ~Succeeded(i)
             /\ calls[i].productCode \in DOMAIN store
             /\ Succeeded(i)'
             /\ \A j \in CallIds \ {i} : calls'[j] = calls[j]
             /\ Len(events') = Len(events) + 1
             /\ events'[Len(events')].productCode = calls[i].productCode
             /\ \A n \in 1..Len(events) : events'[n] = events[n]
             /\ store' = store]_vars
  /\ [][\A i \in CallIds :
         (~Succeeded(i) /\ Succeeded(i)')
         => calls[i].wrote /\ Len(events') = Len(events) + 1]_vars

\* An updateStock and a deductStock of the same item both returned success:
\* each has its one event.
C22_Witness ==
  /\ Len(events) = 2
  /\ \E i, j \in CallIds :
       /\ i # j /\ Succeeded(i) /\ Succeeded(j)
       /\ calls[i].op = "updateStock" /\ calls[j].op = "deductStock"
       /\ calls[i].productCode = calls[j].productCode
       /\ events[1].productCode = calls[i].productCode
       /\ events[2].productCode = calls[j].productCode

\* ---- C23
\* C23: generateUniqueProductCode terminates whenever at least one code of
\* the generation space is absent from the store (under a fair random
\* choice), the code it returns was absent from the store at its final
\* lookup, and it never returns a code it found in the store.
Generating(i) == calls[i].op = "createItem" /\ calls[i].pc = "generate"

C23_GenerateTerminatesWithFreshCode ==
  /\ \A i \in CallIds :
       Generating(i) ~> (~Generating(i) \/ GenCodes \subseteq DOMAIN store)
  /\ [][\A i \in CallIds :
         (Generating(i) /\ ~Generating(i)')
         => /\ calls'[i].productCode \in GenCodes
            /\ calls'[i].productCode \notin DOMAIN store
            /\ calls'[i].pc = "insert"]_vars

\* A code was generated while the other code of the space was taken.
C23_Witness ==
  \E i \in CallIds :
    /\ calls[i].generated /\ calls[i].pc = "insert"
    /\ \E code \in GenCodes \ {calls[i].productCode} : code \in DOMAIN store
    /\ calls[i].productCode \notin DOMAIN store

\* ---- C24
\* C24: no deduction is lost: once every deductStock call on an item has
\* finished, with no other writer of the item, its stored quantity equals
\* its initial quantity minus the sum of the quantities of the deductStock
\* calls that reported success.  (Stated for runs in which every event
\* publish succeeded, so that every deduction that saved reported success.)
RECURSIVE SumQuantity(_)
SumQuantity(S) ==
  IF S = {} THEN 0
  ELSE LET i == CHOOSE x \in S : TRUE
       IN calls[i].quantity + SumQuantity(S \ {i})

DeductsOn(p) == {i \in CallIds : IsDeduct(i) /\ calls[i].productCode = p}

OnlyFinishedDeducts(p) ==
  /\ \A i \in CallIds :
       (IsWriter(i) /\ calls[i].productCode = p) => IsDeduct(i)
  /\ \A i \in DeductsOn(p) :
       calls[i].pc \in {"done", "failed"} /\ calls[i].result # "PublishFailed"

C24_NoDeductionLost ==
  \A p \in DOMAIN store :
    OnlyFinishedDeducts(p)
    => store[p].quantity
         = store[p].initial
             - SumQuantity({i \in DeductsOn(p) : calls[i].result = "ok"})

\* ---- C25
\* C25 as stated: a deductStock call that reports failure to its caller,
\* for whatever reason, leaves the item's stored quantity unchanged: with
\* no other call writing to the item, the store still holds the quantity
\* the call read.
QuantityRead(i) ==
  IF calls[i].result = "InsufficientStock" THEN calls[i].doc
                                           ELSE calls[i].doc + calls[i].quantity

FailedDeduct(i) == IsDeduct(i) /\ calls[i].pc = "failed"

C25_FailedDeductLeavesQuantity ==
  \A i \in CallIds :
    (FailedDeduct(i) /\ calls[i].productCode \in DOMAIN store /\ ~OtherWrite(i))
    => /\ ~calls[i].wrote
       /\ store[calls[i].productCode].quantity = QuantityRead(i)

\* C25 amended: a deductStock call that fails before its save (NotFound,
\* InsufficientStock) leaves the item's stored quantity unchanged; a call
\* that fails because the STOCK_REDUCED event could not be published has
\* saved already, and the stored quantity stays reduced by its quantity.
C25_FailedDeductKeepsWhatItSaved ==
  \A i \in CallIds :
    FailedDeduct(i)
    => IF calls[i].result = "PublishFailed"
         THEN /\ calls[i].wrote
              /\ ~OtherWrite(i)
                   => store[calls[i].productCode].quantity
                        = QuantityRead(i) - calls[i].quantity
         ELSE /\ calls[i].result \in {"NotFound", "InsufficientStock"}
              /\ ~calls[i].wrote
              /\ (calls[i].productCode \in DOMAIN store /\ ~OtherWrite(i))
                   => store[calls[i].productCode].quantity = QuantityRead(i)

\* One deduction failed in its publish after saving, another was refused
\* for insufficient stock afterwards.
C25_Witness ==
  \E i, j \in CallIds :
    /\ FailedDeduct(i) /\ calls[i].result = "PublishFailed"
    /\ ~OtherWrite(i)
    /\ store[calls[i].productCode].quantity < QuantityRead(i)
    /\ FailedDeduct(j) /\ calls[j].result = "InsufficientStock"
    /\ calls[j].productCode = calls[i].productCode

\* ---- C26
\* C26: for every stock event published, previousQuantity and newQuantity
\* equal the item's stored quantity immediately before and immediately
\* after the store write the event reports, also when updateStock and
\* deductStock calls on the same item interleave.
QuantityWritten(i) ==
  IF calls[i].op = "deductStock" THEN calls[i].doc ELSE calls[i].quantity

C26_EventQuantitiesMatchWrite ==
  [][\A i \in CallIds :
       (IsWriter(i) /\ ~Succeeded(i) /\ Succeeded(i)'
          /\ Len(events') = Len(events) + 1)
       => LET e == events'[Len(events')] IN
          /\ e.newQuantity = QuantityWritten(i)
          /\ e.previousQuantity = calls[i].before]_vars

\* ---- C27
\* C27: when two createItem calls supplying the same new productCode
\* interleave (both existence lookups run before either insert), exactly
\* one succeeds, the other fails with Conflict rather than with another
\* error kind, and the store holds one item with that productCode.  (Stated
\* for runs in which the event publish of the call that inserted succeeded.)
PassedLookup(i) ==
  /\ calls[i].op = "createItem" /\ ~calls[i].generated
  /\ calls[i].pc \in {"done", "failed"}
  /\ calls[i].result \notin {"Conflict", "PublishFailed"}

C27_InterleavedCreatesOneConflict ==
  \A i, j \in CallIds :
    ( /\ i # j /\ PassedLookup(i) /\ PassedLookup(j)
      /\ calls[i].productCode = calls[j].productCode )
    => /\ calls[i].productCode \in DOMAIN store
       /\ Succeeded(i) # Succeeded(j)
       /\ ~Succeeded(j) => calls[j].result = "Conflict"

\* ---- C28
\* C28: no oversell: in every reachable state, for each product with
\* initial quantity S (and no updateStock calls), the sum of the quantities
\* of the persisted (CONFIRMED) orders for that product is at most S, also
\* when several createOrder calls for the product run concurrently.
RECURSIVE SumOrdered(_)
SumOrdered(S) ==
  IF S = {} THEN 0
  ELSE LET n == CHOOSE x \in S : TRUE
       IN orders[n].quantity + SumOrdered(S \ {n})

ConfirmedOrdersFor(p) ==
  {n \in 1..Len(orders) :
     orders[n].productCode = p /\ orders[n].status = "CONFIRMED"}

C28_NoOversell ==
  \A p \in DOMAIN store :
    SumOrdered(ConfirmedOrdersFor(p)) <= store[p].initial

====
